---- MODULE Spec2Model ----
(***************************************************************************)
(* rs-dir-stat: the file tree (file_system.rs), its flattening iterator,   *)
(* the parallel scanner traverse_files_parallel, and the proportional bar  *)
(* of visualization_widget.rs (update / paint / MouseDown).                *)
(*                                                                         *)
(* Three state machines share the variables below:                         *)
(*   IterSpec  - FileNodeIterator stepped by next() over a bounded tree    *)
(*   ScanSpec  - traverse_files_parallel on a bounded filesystem, its      *)
(*               child tasks run by a work-stealing pool (FairScanSpec     *)
(*               adds the pool's fairness)                                 *)
(*   Spec      - the application: Traverse button, widget update, size,    *)
(*               paint and MouseDown                                       *)
(* Sizes and positions are exact rationals kept as integer numerators;     *)
(* the f64 special values the code can produce (inf, NaN) are explicit.    *)
(***************************************************************************)
EXTENDS Integers, Sequences, FiniteSets, TLC

VARIABLES
    \* AppState (main.rs) and VisualizationWidget (visualization_widget.rs)
    folder, all_files, selected_file, width, files, painted, event, dirty, panicked,
    \* FileNodeIterator (file_system.rs)
    root, stack, yielded, iter_state,
    \* traverse_files_parallel (file_system.rs) on the rayon pool
    fs, task, result, stacks

app_vars  == <<folder, all_files, selected_file, width, files, painted, event, dirty, panicked>>
iter_vars == <<root, stack, yielded, iter_state>>
scan_vars == <<fs, task, result, stacks>>
vars      == <<app_vars, iter_vars, scan_vars>>

----------------------------------------------------------------------------
\* Bounds of the model
MaxNodes   == 3      \* nodes of a tree the application holds
IterNodes  == 4      \* nodes of a tree the iterator is stepped over
MaxSize    == 2      \* largest file size
MaxWidth   == 4      \* largest widget width
MaxEntries == 4      \* entries of a scanned filesystem
NumWorkers == 2      \* threads of the rayon pool

Sizes == 0 .. MaxSize

----------------------------------------------------------------------------
\* FileNode (file_system.rs:5-14). A path is the sequence of child indices.
None == [kind |-> "None"]

File(p, s) == [kind |-> "File", path |-> p, size |-> s]

Directory(p, c) == [kind |-> "Directory", path |-> p, children |-> c]

\* FileNode::size (file_system.rs:17-22)
size(node) == IF node.kind = "Directory" THEN 0 ELSE node.size

\* FileNode::path (file_system.rs:24-29)
path(node) == node.path

RECURSIVE TreesN(_, _), ForestsN(_, _, _)
\* every FileNode tree of exactly n nodes rooted at path p
TreesN(p, n) ==
    IF n = 0 THEN {}
    ELSE (IF n = 1 THEN {File(p, s) : s \in Sizes} ELSE {})
         \cup {Directory(p, c) : c \in ForestsN(p, n - 1, 1)}

\* every children vector of m nodes in all, the first child at index i
ForestsN(p, m, i) ==
    IF m = 0 THEN {<<>>}
    ELSE UNION {{<<t>> \o f : t \in TreesN(Append(p, i), k),
                              f \in ForestsN(p, m - k, i + 1)} : k \in 1 .. m}

Trees(maxn) == UNION {TreesN(<<>>, n) : n \in 1 .. maxn}

RECURSIVE Reverse(_)
Reverse(s) == IF s = <<>> THEN <<>> ELSE Append(Reverse(Tail(s)), Head(s))

Front(s) == SubSeq(s, 1, Len(s) - 1)

Last(s) == s[Len(s)]

----------------------------------------------------------------------------
\* FileNodeIterator (file_system.rs:36-70). The Vec stack has its top at the end.

\* FileNodeIterator::new (file_system.rs:41-43)
IterNew(r) == <<r>>

\* the assert! of file_system.rs:57-60
NextAssertNoAssert(child) == TRUE

NextAssert(child) == child.kind \in {"File", "None"}

\* children.into_iter().rev() pushed one by one (file_system.rs:53-55)
PushChildren(st, children) == st \o Reverse(children)

\* FileNodeIterator::next (file_system.rs:49-69): the stack it leaves, the item
\* it returns (None at the end) and whether the assert! panicked
next(st) ==
    IF st = <<>> THEN [stack |-> st, item |-> None, panic |-> FALSE]
    ELSE LET node == Last(st)
             rest == Front(st)
         IN IF node.kind = "Directory"
            THEN LET pushed == PushChildren(rest, node.children)
                     child  == IF pushed = <<>> THEN None ELSE Last(pushed)
                     popped == IF pushed = <<>> THEN pushed ELSE Front(pushed)
                 IN [stack |-> popped, item |-> child, panic |-> ~NextAssert(child)]
            ELSE [stack |-> rest, item |-> File(node.path, node.size), panic |-> FALSE]

\* FileNode::as_vector = into_iter().collect() (file_system.rs:31-33, 72-79):
\* next() until it returns None; a panic ends the collection
RECURSIVE Collect(_, _)
Collect(st, acc) ==
    LET r == next(st)
    IN IF r.panic THEN [ok |-> FALSE, items |-> acc]
       ELSE IF r.item = None THEN [ok |-> TRUE, items |-> acc]
       ELSE Collect(r.stack, Append(acc, r.item))

as_vector(node) == Collect(IterNew(node), <<>>)

\* the last event the widget handled: a MouseDown with its pos.x, or another one
NoClick == [type |-> "Other"]

IterIdle ==
    /\ root = None /\ stack = <<>> /\ yielded = <<>> /\ iter_state = "idle"

ScanIdle ==
    /\ fs = None /\ task = <<>> /\ result = <<>> /\ stacks = <<>>

AppIdle ==
    /\ folder = "/home/toby/repos/chris/public" /\ all_files = None /\ selected_file = None /\ width = 0
    /\ files = None /\ painted = <<>> /\ event = NoClick
    /\ dirty = FALSE /\ panicked = FALSE

\* root.into_iter() on a tree (file_system.rs:76-78, 162)
IterInit ==
    /\ root \in Trees(IterNodes)
    /\ stack = IterNew(root)
    /\ yielded = <<>>
    /\ iter_state = "running"
    /\ AppIdle /\ ScanIdle

\* one call of next() by the consumer (collect) of the iterator
IterStep ==
    /\ iter_state = "running"
    /\ LET r == next(stack)
       IN /\ stack' = r.stack
          /\ yielded' = IF r.item = None \/ r.panic THEN yielded ELSE Append(yielded, r.item)
          /\ iter_state' = IF r.panic THEN "panicked"
                           ELSE IF r.item = None THEN "done" ELSE "running"
    /\ UNCHANGED <<root, app_vars, scan_vars>>

IterNext == IterStep

IterSpec == IterInit /\ [][IterNext]_vars

----------------------------------------------------------------------------
\* VisualizationWidget and AppState (visualization_widget.rs, main.rs).
\* f64 values: a finite rational num/den, +infinity, or NaN.
Fin(n, d) == [k |-> "fin", num |-> n, den |-> d]

Inf == [k |-> "inf"]

NaN == [k |-> "nan"]

Some(v) == [kind |-> "Some", val |-> v]

\* the u64 sum .map(|node| node.size()).sum() (visualization_widget.rs:78-83)
SumSizesFirstOnly(seq) == IF seq = <<>> THEN 0 ELSE size(Head(seq))

RECURSIVE SumSizes(_)
SumSizes(seq) == IF seq = <<>> THEN 0 ELSE size(Head(seq)) + SumSizes(Tail(seq))

\* the sizes of the first i files added up
Cumulative(seq, i) == SumSizes(SubSeq(seq, 1, i))

\* total_size as f64 * (event.pos.x / self.width) (visualization_widget.rs:31)
TargetSize(total, x, w) ==
    IF w = 0
    THEN IF x = 0 \/ total = 0 THEN NaN ELSE Inf
    ELSE Fin(total * x, w)

\* (size_so_far as f64) < target_size (visualization_widget.rs:37)
SkipWhileLessOrEqual(sofar, target) ==
    CASE target.k = "nan" -> FALSE
      [] target.k = "inf" -> TRUE
      [] OTHER -> sofar * target.den <= target.num

SkipWhile(sofar, target) ==
    CASE target.k = "nan" -> FALSE
      [] target.k = "inf" -> TRUE
      [] OTHER -> sofar * target.den < target.num

\* size_so_far when the predicate is evaluated for the i-th file: its own size
\* is added before the comparison (visualization_widget.rs:36-37)
SizeSoFarBeforeAdding(seq, i) == Cumulative(seq, i - 1)

SizeSoFar(seq, i) == Cumulative(seq, i)

\* files.iter().skip_while(..).next() (visualization_widget.rs:33-39): the index
\* of the first file the predicate does not skip, 0 when every file is skipped
FirstNotSkipped(seq, target) ==
    LET hits == {i \in 1 .. Len(seq) : ~SkipWhile(SizeSoFar(seq, i), target)}
    IN IF hits = {} THEN 0 ELSE CHOOSE i \in hits : \A j \in hits : i <= j

\* size.width * done, with done the sum of the percentages size / total of the
\* first i files; 0.0 / 0.0 is NaN and stays NaN once added
EdgeAtWithoutDone(seq, total, w, i) ==
    IF total = 0
    THEN IF i = 0 THEN Fin(0, 1) ELSE NaN
    ELSE Fin(w * (IF i = 0 THEN 0 ELSE size(seq[i])), total)

EdgeAt(seq, total, w, i) ==
    IF total = 0
    THEN IF i = 0 THEN Fin(0, 1) ELSE NaN
    ELSE Fin(w * Cumulative(seq, i), total)

\* the painted rectangles of the loop of visualization_widget.rs:110-146: for
\* each file its left and right edge and whether it gets the selection stroke
PaintSegments(seq, total, w, selected) ==
    [i \in 1 .. Len(seq) |->
        [node |-> seq[i],
         x0 |-> EdgeAt(seq, total, w, i - 1),
         x1 |-> EdgeAt(seq, total, w, i),
         stroke |-> (seq[i] = selected)]]

\* what traverse_files_parallel can return for a folder (main.rs:60-61)
ScanResults == {None} \cup Trees(MaxNodes)

\* AppState::default (main.rs:20-28), VisualizationWidget::default (main.rs:71)
Init == AppIdle /\ IterIdle /\ ScanIdle

\* Data::same of AppState (main.rs:30-36): druid calls update when it is false
Changed(f, s, a) == ~(f = folder /\ s = selected_file /\ a = all_files)

Ready == ~dirty /\ ~panicked

\* the Traverse folder button's on_click (main.rs:58-66)
TraverseClearingSelection ==
    /\ Ready
    /\ \E t \in ScanResults :
        /\ all_files' = t
        /\ dirty' = Changed(folder, None, t)
    /\ selected_file' = None
    /\ event' = NoClick
    /\ UNCHANGED <<folder, width, files, painted, panicked>>
    /\ UNCHANGED <<iter_vars, scan_vars>>

Traverse ==
    /\ Ready
    /\ \E t \in ScanResults :
        /\ all_files' = t
        /\ dirty' = Changed(folder, selected_file, t)
    /\ event' = NoClick
    /\ UNCHANGED <<folder, selected_file, width, files, painted, panicked>>
    /\ UNCHANGED <<iter_vars, scan_vars>>

\* VisualizationWidget::update (visualization_widget.rs:67-87)
Update ==
    /\ dirty /\ ~panicked
    /\ IF all_files = None
       THEN files' = None /\ panicked' = FALSE
       ELSE LET v == as_vector(all_files)
            IN IF v.ok
               THEN /\ files' = Some([seq |-> v.items, total |-> SumSizes(v.items)])
                    /\ panicked' = FALSE
               ELSE /\ files' = files
                    /\ panicked' = TRUE
    /\ dirty' = FALSE
    /\ painted' = <<>>        \* ctx.request_paint(): what was drawn is invalid
    /\ event' = NoClick
    /\ UNCHANGED <<folder, all_files, selected_file, width>>
    /\ UNCHANGED <<iter_vars, scan_vars>>

\* VisualizationWidget::lifecycle, LifeCycle::Size (visualization_widget.rs:55-65)
Size ==
    /\ Ready
    /\ \E w \in 0 .. MaxWidth : width' = w
    /\ painted' = <<>>        \* a new size makes druid repaint the widget
    /\ event' = NoClick
    /\ UNCHANGED <<folder, all_files, selected_file, files, dirty, panicked>>
    /\ UNCHANGED <<iter_vars, scan_vars>>

\* VisualizationWidget::paint (visualization_widget.rs:99-148)
Paint ==
    /\ Ready
    /\ IF files = None
       THEN painted' = <<>>
       ELSE painted' = PaintSegments(files.val.seq, files.val.total, width, selected_file)
    /\ panicked' = (files # None /\ \E i \in 1 .. Len(files.val.seq) :
                        files.val.seq[i].kind # "File")
    /\ event' = NoClick
    /\ UNCHANGED <<folder, all_files, selected_file, width, files, dirty>>
    /\ UNCHANGED <<iter_vars, scan_vars>>

\* VisualizationWidget::event, Event::MouseDown at pos.x = x
\* (visualization_widget.rs:25-52)
MouseDown(x) ==
    /\ Ready
    /\ event' = [type |-> "MouseDown", x |-> x]
    /\ IF files = None
       THEN UNCHANGED <<selected_file, dirty, panicked>>
       ELSE LET seq    == files.val.seq
                target == TargetSize(files.val.total, x, width)
                i      == FirstNotSkipped(seq, target)
            IN IF i = 0
               THEN /\ selected_file' = None
                    /\ dirty' = Changed(folder, None, all_files)
                    /\ panicked' = FALSE
               ELSE /\ selected_file' = seq[i]
                    /\ dirty' = Changed(folder, seq[i], all_files)
                    /\ panicked' = (seq[i].kind # "File")
    /\ UNCHANGED <<folder, all_files, width, files, painted>>
    /\ UNCHANGED <<iter_vars, scan_vars>>

\* a click lands inside the widget or just past its right edge
Clicks == 0 .. width + 1

Next ==
    \/ Traverse
    \/ Update
    \/ Size
    \/ Paint
    \/ \E x \in Clicks : MouseDown(x)

Spec == Init /\ [][Next]_vars

----------------------------------------------------------------------------
\* traverse_files_parallel (file_system.rs:81-136) on a filesystem snapshot.
\* An entry of the filesystem is what the calls of std::fs see at its path:
\*   file      a regular file of size FileSize(path)
\*   vanishing a regular file whose first stat succeeds and whose next one fails
\*   dir       a directory read_dir can list
\*   locked    a directory read_dir fails on
\*   special   neither file nor directory (device, socket)
\*   nostat    metadata fails (permission, broken symlink)
\*   noentry   the listing of the parent yields Err for it
Entry(k, p, s, es) == [kind |-> k, path |-> p, size |-> s, entries |-> es]

\* the size of the file at path p: one size per depth, never 0
FileSize(p) == Len(p) + 1

LeafKinds == {"special", "nostat", "noentry"}

RECURSIVE FsN(_, _), FsForestN(_, _, _)
\* every filesystem of exactly n entries rooted at path p
FsN(p, n) ==
    IF n = 0 THEN {}
    ELSE (IF n = 1
          THEN {Entry(k, p, FileSize(p), <<>>) : k \in {"file", "vanishing"}}
               \cup {Entry(k, p, 0, <<>>) : k \in LeafKinds}
          ELSE {})
         \cup {Entry(k, p, 0, es) : k \in {"dir", "locked"}, es \in FsForestN(p, n - 1, 1)}

FsForestN(p, m, i) ==
    IF m = 0 THEN {<<>>}
    ELSE UNION {{<<e>> \o f : e \in FsN(Append(p, i), k),
                              f \in FsForestN(p, m - k, i + 1)} : k \in 1 .. m}

FileSystems == {e \in UNION {FsN(<<>>, n) : n \in 1 .. MaxEntries} : e.kind # "noentry"}

RECURSIVE EntryAt(_, _), AllPaths(_)
EntryAt(e, p) == IF p = <<>> THEN e ELSE EntryAt(e, Front(p)).entries[Last(p)]

AllPaths(e) == {e.path} \cup UNION {AllPaths(e.entries[i]) : i \in 1 .. Len(e.entries)}

\* std::fs::metadata(path) succeeds (file_system.rs:85)
StatOk(e) == e.kind \notin {"nostat", "noentry"}

\* path.is_file() (file_system.rs:98)
IsFile(e) == e.kind \in {"file", "vanishing"}

\* metadata.is_dir() (file_system.rs:89)
IsDir(e) == e.kind \in {"dir", "locked"}

\* std::fs::read_dir(path) succeeds (file_system.rs:90)
ReadDirIgnoringErrors(e) == TRUE

ReadDirOk(e) == e.kind = "dir"

\* entries.filter_map(|entry| entry.ok().map(|e| e.path())) (file_system.rs:91-93)
ListedPaths(e) ==
    LET listed == SelectSeq(e.entries, LAMBDA c : c.kind # "noentry")
    IN [i \in 1 .. Len(listed) |-> listed[i].path]

\* the File node of the closure's is_file arm (file_system.rs:98-105)
ChildFile(e) ==
    File(e.path, IF e.kind = "vanishing" THEN 0 ELSE e.size)

\* the body of traverse_files_parallel up to the fan-out (file_system.rs:85-93,
\* 122-135): the value returned at once, or fanout for a listed directory
Visit(e) ==
    IF ~StatOk(e) THEN [fanout |-> FALSE, value |-> None]
    ELSE IF IsDir(e)
         THEN IF ReadDirOk(e) THEN [fanout |-> TRUE, value |-> None]
              ELSE [fanout |-> FALSE, value |-> None]
    ELSE IF IsFile(e) THEN [fanout |-> FALSE, value |-> File(e.path, e.size)]
    ELSE [fanout |-> FALSE, value |-> None]

\* filter_map(..).collect::<Vec<_>>() (file_system.rs:97-111): the Some results
\* of the children, in the order of paths
FilterMapUntilNone(rs) ==
    LET bad == {i \in 1 .. Len(rs) : rs[i] = None}
    IN IF bad = {} THEN rs
       ELSE SubSeq(rs, 1, (CHOOSE i \in bad : \A j \in bad : i <= j) - 1)

FilterMapTwice(rs) == SelectSeq(rs \o rs, LAMBDA r : r # None)

FilterMapReversed(rs) == Reverse(SelectSeq(rs, LAMBDA r : r # None))

FilterMap(rs) == SelectSeq(rs, LAMBDA r : r # None)

\* the rayon pool: thread 0 is the caller of the scan, blocked until the pool
\* has run the parallel iterator; 1 .. n are the pool's worker threads
Threads == DOMAIN stacks

Workers == Threads \ {0}

Top(w) == Last(stacks[w])

\* a worker takes a job when it has nothing to run or when the call on top of
\* its stack waits for jobs run elsewhere (rayon's wait_until steals)
CanTakeOnlyIdle(w) == stacks[w] = <<>>

CanTake(w) == IF stacks[w] = <<>> THEN TRUE ELSE task[Top(w)] = "waiting"

\* collect() returns once every item of the parallel iterator has been run
JoinReadyFirst(p) ==
    LET cs == ListedPaths(EntryAt(fs, p))
    IN IF cs = <<>> THEN TRUE ELSE task[cs[1]] = "done"

JoinReady(p) ==
    LET cs == ListedPaths(EntryAt(fs, p))
    IN \A i \in 1 .. Len(cs) : task[cs[i]] = "done"

ScanInit ==
    /\ fs \in FileSystems
    /\ task = [p \in AllPaths(fs) |-> "none"]
    /\ result = [p \in AllPaths(fs) |-> None]
    /\ \E n \in 1 .. NumWorkers : stacks = [w \in 0 .. n |-> <<>>]
    /\ AppIdle /\ IterIdle

\* a call that fans out: its children become jobs of the pool and the thread
\* blocks in collect() (file_system.rs:95-111)
FanOut(w, p) ==
    LET cs == ListedPaths(EntryAt(fs, p))
    IN /\ task' = [q \in DOMAIN task |->
                     IF q = p THEN "waiting"
                     ELSE IF \E i \in 1 .. Len(cs) : cs[i] = q THEN "queued"
                     ELSE task[q]]
       /\ stacks' = [stacks EXCEPT ![w] = Append(@, p)]
       /\ UNCHANGED result

Return(p, v) ==
    /\ task' = [task EXCEPT ![p] = "done"]
    /\ result' = [result EXCEPT ![p] = v]

\* the Traverse button's call traverse_files_parallel(root) (main.rs:60-61)
Call ==
    /\ task[<<>>] = "none"
    /\ LET v == Visit(fs)
       IN IF v.fanout THEN FanOut(0, <<>>)
          ELSE Return(<<>>, v.value) /\ UNCHANGED stacks
    /\ UNCHANGED <<fs, app_vars, iter_vars>>

\* a pool thread runs the filter_map closure on one path (file_system.rs:97-109)
RunChild(w, p) ==
    /\ task[p] = "queued"
    /\ CanTake(w)
    /\ LET e == EntryAt(fs, p)
           v == Visit(e)
       IN IF IsFile(e) THEN Return(p, ChildFile(e)) /\ UNCHANGED stacks
          ELSE IF v.fanout THEN FanOut(w, p)
          ELSE Return(p, v.value) /\ UNCHANGED stacks
    /\ UNCHANGED <<fs, app_vars, iter_vars>>

\* collect() returns and the Directory node is built (file_system.rs:110-121)
Join(w) ==
    /\ stacks[w] # <<>>
    /\ task[Top(w)] = "waiting"
    /\ JoinReady(Top(w))
    /\ LET p  == Top(w)
           cs == ListedPaths(EntryAt(fs, p))
       IN Return(p, Directory(p, FilterMap([i \in 1 .. Len(cs) |-> result[cs[i]]])))
    /\ stacks' = [stacks EXCEPT ![w] = Front(@)]
    /\ UNCHANGED <<fs, app_vars, iter_vars>>

ScanNext ==
    \/ Call
    \/ \E w \in Workers : \E p \in DOMAIN task : RunChild(w, p)
    \/ \E w \in Threads : Join(w)

ScanSpec == ScanInit /\ [][ScanNext]_vars

\* threads of the pool run whenever they have something to run
FairScanSpec == ScanSpec /\ WF_vars(ScanNext)

----------------------------------------------------------------------------
\* the File nodes of a tree, depth first, children in stored order (reference)
RECURSIVE Leaves(_), LeavesOfAll(_)
Leaves(node) ==
    IF node.kind = "File" THEN <<node>> ELSE LeavesOfAll(node.children)

LeavesOfAll(children) ==
    IF children = <<>> THEN <<>>
    ELSE Leaves(Head(children)) \o LeavesOfAll(Tail(children))

\* C1 (as claimed): for every tree the flattening completes, never panicking, and
\* yields exactly the File nodes of the tree in depth-first stored order.
C1_FlattenCompletesWithAllFiles ==
    /\ iter_state # "panicked"
    /\ iter_state = "done" => yielded = Leaves(root)

\* C4: every item next() has returned is a File node, never a Directory.
C4_LeafOnly ==
    \A i \in 1 .. Len(yielded) : yielded[i].kind = "File"

C4_Witness ==
    /\ iter_state = "done"
    /\ Len(yielded) >= 2
    /\ \E i \in 1 .. Len(root.children) : root.children[i].kind = "Directory"

----------------------------------------------------------------------------
\* The widget has handled a MouseDown with a tree present; event.x is where.
Clicked == event.type = "MouseDown" /\ files # None

ShownFiles == files.val.seq

ShownTotal == files.val.total

\* what paint draws for the widget's present files and width
Segments == PaintSegments(ShownFiles, ShownTotal, width, selected_file)

\* x is the midpoint of a painted segment [x0, x1]
IsMidpoint(x, seg) ==
    /\ seg.x0.k = "fin" /\ seg.x1.k = "fin"
    /\ 2 * x * seg.x0.den = seg.x0.num + seg.x1.num

\* x0 <= x < x1
InHalfOpen(x, seg) ==
    /\ seg.x0.k = "fin" /\ seg.x1.k = "fin"
    /\ seg.x0.num <= x * seg.x0.den /\ x * seg.x1.den < seg.x1.num

\* x0 < x <= x1
InLeftOpen(x, seg) ==
    /\ seg.x0.k = "fin" /\ seg.x1.k = "fin"
    /\ seg.x0.num < x * seg.x0.den /\ x * seg.x1.den <= seg.x1.num

\* C2 (as claimed): with total > 0, a click on the midpoint of the painted
\* interval of any file, files of size 0 included, selects that file.
C2_MidpointSelectsAnyFile ==
    (Clicked /\ ShownTotal > 0 /\ width > 0) =>
        \A i \in 1 .. Len(ShownFiles) :
            IsMidpoint(event.x, Segments[i]) => selected_file = ShownFiles[i]

\* C2 (amended): with total > 0, a click on the midpoint of the painted interval
\* of a file of size > 0 selects that file.
C2_MidpointSelectsFile ==
    (Clicked /\ ShownTotal > 0 /\ width > 0) =>
        \A i \in 1 .. Len(ShownFiles) :
            (size(ShownFiles[i]) > 0 /\ IsMidpoint(event.x, Segments[i]))
                => selected_file = ShownFiles[i]

C2_Witness ==
    /\ Clicked /\ ShownTotal > 0 /\ width > 0
    /\ \E i \in 2 .. Len(ShownFiles) :
        /\ size(ShownFiles[i]) > 0 /\ size(ShownFiles[i - 1]) > 0
        /\ IsMidpoint(event.x, Segments[i])
        /\ selected_file = ShownFiles[i]

\* C3 (as claimed): with total > 0 and a target in [0, total], the selected file
\* is the one whose half-open painted interval [x0, x1) holds the click.
C3_ResolvedIsHalfOpenOwner ==
    (Clicked /\ ShownTotal > 0 /\ width > 0 /\ event.x <= width) =>
        \E i \in 1 .. Len(ShownFiles) :
            selected_file = ShownFiles[i] /\ InHalfOpen(event.x, Segments[i])

\* C3 (amended): with total > 0 and a target in [0, total], the selected file is
\* the first file for a target of 0, and otherwise the one whose interval
\* (x0, x1], open on the left and closed on the right, holds the click: on the
\* boundary between two files it is the earlier file.
C3_ResolvedIsLeftOpenOwner ==
    (Clicked /\ ShownTotal > 0 /\ width > 0 /\ event.x <= width) =>
        \E i \in 1 .. Len(ShownFiles) :
            /\ selected_file = ShownFiles[i]
            /\ IF event.x = 0 THEN i = 1 ELSE InLeftOpen(event.x, Segments[i])

C3_Witness ==
    /\ Clicked /\ ShownTotal > 0 /\ width > 0 /\ event.x < width
    /\ \E i \in 1 .. Len(ShownFiles) - 1 :
        /\ size(ShownFiles[i]) > 0 /\ size(ShownFiles[i + 1]) > 0
        /\ Segments[i].x1 = Fin(event.x * ShownTotal, ShownTotal)
        /\ selected_file = ShownFiles[i]

\* C9 (as claimed): with total = 0 a click at any position selects nothing.
C9_ZeroTotalSelectsNothing ==
    (Clicked /\ ShownTotal = 0) => selected_file = None

\* C10 (as claimed): with total = 0 paint draws no segment.
C10_ZeroTotalPaintsNothing ==
    (files # None /\ ShownTotal = 0) => painted = <<>>

----------------------------------------------------------------------------
\* The scan has returned to its caller.
ScanReturned == task[<<>>] = "done"

\* an entry a scan gives a node for: it can be stat'ed and is a regular file or
\* a directory that can be listed (reference)
Scannable(e) == e.kind \in {"file", "vanishing", "dir"}

ScannablePaths(e) ==
    LET ok == SelectSeq(e.entries, Scannable)
    IN [i \in 1 .. Len(ok) |-> ok[i].path]

\* C5: a scanned, listable directory yields a Directory node whose children are
\* exactly the nodes of its entries that can be scanned, in listing order: the
\* entries that cannot be stat'ed are left out and every file and listable
\* subdirectory is there.
C5_SoftFailure ==
    \A p \in DOMAIN task :
        (task[p] = "done" /\ EntryAt(fs, p).kind = "dir") =>
            /\ result[p].kind = "Directory"
            /\ result[p].path = p
            /\ [i \in 1 .. Len(result[p].children) |-> result[p].children[i].path]
                   = ScannablePaths(EntryAt(fs, p))
            /\ \A i \in 1 .. Len(result[p].children) :
                   LET c == result[p].children[i]
                   IN /\ c = result[c.path]
                      /\ c.kind = IF EntryAt(fs, c.path).kind = "dir"
                                  THEN "Directory" ELSE "File"

C5_Witness ==
    /\ ScanReturned
    /\ result[<<>>].kind = "Directory"
    /\ Len(result[<<>>].children) >= 2
    /\ \E i \in 1 .. Len(fs.entries) : fs.entries[i].kind = "nostat"
    /\ Len(result[<<>>].children) < Len(fs.entries)

\* the tree a scan of entry e is to return when every error costs the affected
\* node alone (reference); a child file that vanishes gets size 0
RECURSIVE Expected(_, _), ExpectedAll(_)
Expected(e, isRoot) ==
    CASE e.kind = "file" -> File(e.path, e.size)
      [] e.kind = "vanishing" -> File(e.path, IF isRoot THEN e.size ELSE 0)
      [] e.kind = "dir" -> Directory(e.path, ExpectedAll(e.entries))
      [] OTHER -> None

ExpectedAll(es) ==
    IF es = <<>> THEN <<>>
    ELSE LET first == Expected(Head(es), FALSE)
         IN (IF first = None THEN <<>> ELSE <<first>>) \o ExpectedAll(Tail(es))

\* C6: the scan returns None for a root that cannot be stat'ed or listed (or is
\* neither file nor directory), and otherwise the tree in which exactly the
\* failing nodes, each with its subtree, are missing: parents and siblings of
\* a failing node are all there.
C6_ErrorsDegradeToNone ==
    ScanReturned => result[<<>>] = Expected(fs, TRUE)

C6_Witness ==
    /\ ScanReturned
    /\ result[<<>>].kind = "Directory"
    /\ Len(result[<<>>].children) >= 1
    /\ \E i \in 1 .. Len(fs.entries) :
          fs.entries[i].kind = "locked" /\ fs.entries[i].entries # <<>>

IsPrefix(p, q) == Len(p) <= Len(q) /\ SubSeq(q, 1, Len(p)) = p

\* C7: once a call has returned a Directory node, no task below it is queued or
\* running, every listed child has completed, and the node holds the result
\* of each child that gave one exactly once and nothing else.
C7_JoinBarrier ==
    \A p \in DOMAIN task :
        (task[p] = "done" /\ result[p].kind = "Directory") =>
            LET cs   == ListedPaths(EntryAt(fs, p))
                kids == result[p].children
                some == {i \in 1 .. Len(cs) : result[cs[i]] # None}
            IN /\ \A q \in DOMAIN task :
                     IsPrefix(p, q) => task[q] \in {"done", "none"}
               /\ \A i \in 1 .. Len(cs) : task[cs[i]] = "done"
               /\ Len(kids) = Cardinality(some)
               /\ \A i \in some :
                     Cardinality({j \in 1 .. Len(kids) : kids[j] = result[cs[i]]}) = 1

C7_Witness ==
    /\ ScanReturned
    /\ result[<<>>].kind = "Directory"
    /\ Len(result[<<>>].children) >= 2
    /\ \E i \in 1 .. Len(result[<<>>].children) :
          /\ result[<<>>].children[i].kind = "Directory"
          /\ result[<<>>].children[i].children # <<>>

\* C8: under fair scheduling of the pool a started scan returns, for every
\* tree depth and every pool size of the model.
C8_ScanReturns == (task[<<>>] # "none") ~> ScanReturned

C8_Witness ==
    /\ ScanReturned
    /\ Cardinality(Workers) = 1
    /\ \E p \in DOMAIN task :
          Len(p) >= 2 /\ task[p] = "done" /\ result[p].kind = "Directory"

----------------------------------------------------------------------------
\* target > total, for the f64 values a target can take
PastTotal(target, total) ==
    CASE target.k = "nan" -> FALSE
      [] target.k = "inf" -> TRUE
      [] OTHER -> target.num > total * target.den

\* sofar >= target fails to hold only when sofar < target does (NaN never is)
Reaches(sofar, target) ==
    CASE target.k = "nan" -> TRUE
      [] target.k = "inf" -> FALSE
      [] OTHER -> sofar * target.den >= target.num

\* the effect a MouseDown at x is to have on the selection, given the widget
\* state it starts from (reference)
SelectionAfterClick(x, before, after) ==
    IF files = None THEN after = before
    ELSE LET seq    == files.val.seq
             total  == files.val.total
             target == TargetSize(total, x, width)
         IN IF seq = <<>> \/ PastTotal(target, total)
            THEN after = None
            ELSE \E i \in 1 .. Len(seq) :
                    /\ after = seq[i]
                    /\ Reaches(Cumulative(seq, i), target)
                    /\ \A j \in 1 .. i - 1 : ~Reaches(Cumulative(seq, j), target)

\* C11: a MouseDown leaves selected_file as it was when the widget holds no
\* tree, sets it to the resolved file when the click resolves, and to None when
\* the click lands past all content or the sequence is empty; all_files and
\* folder stay as they were.
C11_SelectionLifecycle ==
    [][event'.type = "MouseDown" =>
          /\ SelectionAfterClick(event'.x, selected_file, selected_file')
          /\ all_files' = all_files
          /\ folder' = folder]_vars

C11_Witness ==
    /\ event.type = "MouseDown"
    /\ files = None
    /\ selected_file # None
    /\ ~dirty

----------------------------------------------------------------------------
\* the sizes of all File nodes anywhere in a tree, directories counting 0
\* (reference)
RECURSIVE TreeTotal(_), ForestTotal(_)
TreeTotal(node) ==
    IF node.kind = "File" THEN node.size ELSE ForestTotal(node.children)

ForestTotal(children) ==
    IF children = <<>> THEN 0
    ELSE TreeTotal(Head(children)) + ForestTotal(Tail(children))

\* update has run on the present data and returned
Updated == ~dirty /\ ~panicked

----------------------------------------------------------------------------
----------------------------------------------------------------------------
\* the paths of all nodes of a tree, one element per node
RECURSIVE NodePaths(_), NodePathsOfAll(_)
NodePaths(node) ==
    IF node.kind = "File" THEN <<node.path>>
    ELSE <<node.path>> \o NodePathsOfAll(node.children)

NodePathsOfAll(children) ==
    IF children = <<>> THEN <<>>
    ELSE NodePaths(Head(children)) \o NodePathsOfAll(Tail(children))

NoDuplicates(seq) ==
    \A i, j \in 1 .. Len(seq) : seq[i] = seq[j] => i = j

Strokes(segments) == {i \in 1 .. Len(segments) : segments[i].stroke}

\* C15: in the tree a scan returns no two nodes have the same path, and when
\* that tree is flattened and painted with any of its files selected, exactly
\* one segment gets the selection stroke (none for a file that is not there).
C15_UniquePaths ==
    (ScanReturned /\ result[<<>>] # None) =>
        LET tree == result[<<>>]
            v    == as_vector(tree)
        IN /\ NoDuplicates(NodePaths(tree))
           /\ v.ok =>
                 /\ NoDuplicates(v.items)
                 /\ \A n \in 1 .. Len(v.items) :
                       Cardinality(Strokes(PaintSegments(v.items, SumSizes(v.items),
                                                         MaxWidth, v.items[n]))) = 1
                 /\ Strokes(PaintSegments(v.items, SumSizes(v.items), MaxWidth,
                                          File(<<>>, 0))) = {}

C15_Witness ==
    /\ ScanReturned
    /\ result[<<>>].kind = "Directory"
    /\ as_vector(result[<<>>]).ok
    /\ Len(as_vector(result[<<>>]).items) >= 2
    /\ \E i \in 1 .. Len(result[<<>>].children) :
          result[<<>>].children[i].kind = "Directory"

----------------------------------------------------------------------------
\* the position of path p in the listing of its parent directory
ListingIndex(p) == Last(p)

\* C17: whatever the order in which the pool ran and finished the child tasks,
\* every call that has returned gave the one tree determined by the filesystem
\* snapshot, and the children of every Directory node stand in the order of the
\* directory listing.
C17_ScheduleIndependent ==
    \A p \in DOMAIN task :
        task[p] = "done" =>
            /\ result[p] = Expected(EntryAt(fs, p), p = <<>>)
            /\ result[p] # None /\ result[p].kind = "Directory" =>
                  LET kids == result[p].children
                  IN \A i, j \in 1 .. Len(kids) :
                        i < j => ListingIndex(kids[i].path) < ListingIndex(kids[j].path)

\* with two pool threads, a later entry of a listing has finished while the
\* call on an earlier one still waits in collect() with a child result in
C17_Witness ==
    /\ Cardinality(Workers) = 2
    /\ \E p, q \in DOMAIN task :
          /\ p # <<>> /\ q # <<>> /\ Front(p) = Front(q) /\ Last(p) < Last(q)
          /\ task[q] = "done" /\ result[q] # None
          /\ task[p] = "waiting"
          /\ \E c \in DOMAIN task :
                c # <<>> /\ Front(c) = p /\ task[c] = "done" /\ result[c] # None

----------------------------------------------------------------------------
InSeq(x, seq) == \E i \in 1 .. Len(seq) : seq[i] = x

\* selected_file is a File of the tree all_files holds now
SelectedInCurrentTree ==
    all_files # None /\ InSeq(selected_file, Leaves(all_files))

\* C16 (as claimed): once update has run, selected_file is None or a File of
\* the flattened sequence of the current all_files tree.
C16_SelectionInCurrentTree ==
    Updated => (selected_file = None \/ SelectedInCurrentTree)

\* C16 (amended): selected_file is None or a File node; it changes only in a
\* click handled while a tree is present, which leaves all_files alone and
\* sets it to None or to a File of the flattened sequence of the all_files tree
\* of that moment; a step that replaces all_files leaves selected_file as it is.
C16_SelectionSetOnlyByClick ==
    [][/\ selected_file' = None \/ selected_file'.kind = "File"
       /\ selected_file' # selected_file =>
             /\ event'.type = "MouseDown"
             /\ files # None
             /\ all_files' = all_files
             /\ selected_file' = None \/ SelectedInCurrentTree'
       /\ all_files' # all_files => selected_file' = selected_file]_vars

\* a selection made on an earlier tree is still there after a rescan and the
\* update that follows it
C16_Witness ==
    /\ Updated
    /\ selected_file # None
    /\ files = None \/ ~InSeq(selected_file, ShownFiles)
    /\ ~SelectedInCurrentTree

----------------------------------------------------------------------------
\* the first file at which the cumulative size equals the total, 0 if none
FirstReachingTotal(seq, total) ==
    LET at == {i \in 1 .. Len(seq) : Cumulative(seq, i) = total}
    IN IF at = {} THEN 0 ELSE CHOOSE i \in at : \A j \in at : i <= j

\* a click at 0 <= x <= W on a non-empty sequence resolves to a file of the
\* sequence, and at x = W to the first file whose cumulative size is the total
RightEdgeResolved ==
    /\ selected_file # None
    /\ InSeq(selected_file, ShownFiles)
    /\ event.x = width =>
          selected_file = ShownFiles[FirstReachingTotal(ShownFiles, ShownTotal)]

\* C18 (as claimed): for a non-empty sequence with total > 0 every click with
\* 0 <= x <= W resolves to a file, and a click at x = W to the first file whose
\* cumulative size equals the total.
C18_RightEdgePolicy ==
    (Clicked /\ ShownFiles # <<>> /\ ShownTotal > 0 /\ event.x <= width) =>
        RightEdgeResolved

\* the same for a widget of positive width, where total * (x / W) is a number
RightEdgePolicyPositiveWidth ==
    (Clicked /\ ShownFiles # <<>> /\ ShownTotal > 0 /\ event.x <= width
        /\ width > 0) => RightEdgeResolved

====
